---- MODULE Spec2Model ----
(***************************************************************************)
(* The Banner compound component of packages/react/src/Banner/Banner.tsx:  *)
(* the root component (identifier generation, context, development-only    *)
(* title check, icon, actions region, dismiss control) and its             *)
(* sub-components, rendered by a host that renders, commits and then runs  *)
(* effects.                                                                *)
(***************************************************************************)
EXTENDS Integers, Sequences, FiniteSets, TLC

\* ---------------------------------------------------------------- bounds

\* How many times the Banner may be mounted in one behaviour (each mount
\* draws a fresh identifier from useId).
MaxMounts == 2

\* The most children a caller nests in one Banner.
MaxChildren == 1

\* ------------------------------------------------------- JavaScript values

\* A prop that was not passed, and the null literal.
Undefined == "undefined"
Null == "null"

\* A value that is neither null nor undefined but is falsy: the empty string.
EmptyString == ""

Nullish(v) == v \in {Undefined, Null}

\* JavaScript truthiness over the values the model passes.
Truthy(v) == v \notin {Undefined, Null, EmptyString}

\* `a ?? b`
Coalesce(a, b) == IF Nullish(a) THEN b ELSE a

\* An empty props object / attribute map.
NoProps == [k \in {} |-> Undefined]

\* JSX attribute order, `<X {...a} b />`: the later attribute wins.
Spread(a, b) ==
    [k \in DOMAIN a \cup DOMAIN b |-> IF k \in DOMAIN b THEN b[k] ELSE a[k]]

\* Object rest, `{k1, k2, ...rest} = props`: props without the named keys.
Rest(props, taken) == [k \in DOMAIN props \ taken |-> props[k]]

\* Reading a property that may be missing from an object.
Get(props, k) == IF k \in DOMAIN props THEN props[k] ELSE Undefined

\* cx('Base', className)
cx(base, className) ==
    IF Truthy(className) THEN base \o " " \o className ELSE base

\* ------------------------------------------------------------- the types

BannerVariant == {"critical", "info", "success", "upsell", "warning"}

HeadingElement == {"h2", "h3", "h4", "h5", "h6"}

VariantType == {"default", "primary", "invisible", "danger"}

iconForVariant ==
    [v \in BannerVariant |->
        CASE v = "critical" -> "StopIcon"
          [] v = "info" -> "InfoIcon"
          [] v = "success" -> "CheckCircleIcon"
          [] v = "upsell" -> "InfoIcon"
          [] v = "warning" -> "AlertIcon"]

\* The error messages.
MissingAccessibleTitle ==
    "The Banner component requires a title"

ContextMisuse == "Component must be used within a <Banner> component"

NoError == "none"

\* createContext<BannerContextValue | null>(null): a nullable context value
\* is a sequence of at most one value, and the default (no Provider above)
\* is null.
NullContext == << >>
Provided(value) == << value >>

\* -------------------------------------------------------------- elements

\* A rendered element: its type, its attributes and its children.
Element(tag, attrs, children) ==
    [tag |-> tag, attrs |-> attrs, children |-> children]

\* How a ReactNode expression in child position renders: nothing for null,
\* undefined and the empty string, one node otherwise.
Node(x) ==
    IF Truthy(x) THEN << Element("#node", ("data" :> x), << >>) >> ELSE << >>

\* The outcome of a component: the element it returns, or the error it throws.
Returned(el) == [threw |-> NoError, el |-> << el >>]
Threw(msg) == [threw |-> msg, el |-> << >>]

\* ------------------------------------------------------- sub-components

\* useBanner(): the context value, or a throw when there is none.
\* The same without the guard: a value is returned where there is none.
useBannerLenient(context) ==
    IF context # NullContext THEN [threw |-> NoError, value |-> context]
    ELSE [threw |-> NoError, value |-> Provided([titleId |-> ""])]

useBanner(context) ==
    IF context # NullContext THEN [threw |-> NoError, value |-> context]
    ELSE [threw |-> ContextMisuse, value |-> NullContext]

\* BannerTitle: the heading bound to the titleId of the banner above it.
BannerTitle(props, context) ==
    LET Heading == IF Get(props, "as") = Undefined THEN "h2" ELSE props["as"]
        rest == Rest(props, {"as", "className", "children"})
        banner == useBanner(context)
    IN  IF banner.threw # NoError THEN Threw(banner.threw)
        ELSE Returned(Element(Heading,
                 Spread(rest, ("id" :> banner.value[1].titleId
                            @@ "className" :> cx("BannerTitle", Get(props, "className")))),
                 Node(Get(props, "children"))))

\* BannerDescription: presentational, reads no context.
BannerDescription(props, context) ==
    LET rest == Rest(props, {"children", "className"})
    IN  Returned(Element("div",
            Spread(rest, ("className" :> cx("BannerDescription", Get(props, "className")))),
            Node(Get(props, "children"))))

\* BannerActions: both arrangements, always; a child slot is x ?? null.
\* The same with the two markers exchanged.
BannerActionsSwapped(props, context) ==
    LET primaryAction == Get(props, "primaryAction")
        secondaryAction == Get(props, "secondaryAction")
    IN  Returned(Element("div", ("className" :> "BannerActions"),
            << Element("div",
                   ("className" :> "BannerActionsContainer" @@ "data-hide-on-md" :> ""),
                   Node(Coalesce(secondaryAction, Null)) \o Node(Coalesce(primaryAction, Null))),
               Element("div",
                   ("className" :> "BannerActionsContainer" @@ "data-hide-on-sm" :> ""),
                   Node(Coalesce(primaryAction, Null)) \o Node(Coalesce(secondaryAction, Null))) >>))

\* The same with one arrangement only.
BannerActionsOneArrangement(props, context) ==
    LET primaryAction == Get(props, "primaryAction")
        secondaryAction == Get(props, "secondaryAction")
    IN  Returned(Element("div", ("className" :> "BannerActions"),
            << Element("div",
                   ("className" :> "BannerActionsContainer" @@ "data-hide-on-md" :> ""),
                   Node(Coalesce(primaryAction, Null)) \o Node(Coalesce(secondaryAction, Null))) >>))

BannerActions(props, context) ==
    LET primaryAction == Get(props, "primaryAction")
        secondaryAction == Get(props, "secondaryAction")
    IN  Returned(Element("div", ("className" :> "BannerActions"),
            << Element("div",
                   ("className" :> "BannerActionsContainer" @@ "data-hide-on-sm" :> ""),
                   Node(Coalesce(secondaryAction, Null)) \o Node(Coalesce(primaryAction, Null))),
               Element("div",
                   ("className" :> "BannerActionsContainer" @@ "data-hide-on-md" :> ""),
                   Node(Coalesce(primaryAction, Null)) \o Node(Coalesce(secondaryAction, Null))) >>))

\* BannerPrimaryAction: a Button with variant="default" written before the
\* spread of the remaining props.
BannerPrimaryAction(props, context) ==
    LET rest == Rest(props, {"children", "className"})
    IN  Returned(Element("Button",
            Spread(("className" :> cx("BannerPrimaryAction", Get(props, "className"))
                    @@ "variant" :> "default"), rest),
            Node(Get(props, "children"))))

\* BannerSecondaryAction: a Button with variant="invisible" written before
\* the spread of the remaining props.
BannerSecondaryAction(props, context) ==
    LET rest == Rest(props, {"children", "className"})
    IN  Returned(Element("Button",
            Spread(("className" :> cx("BannerPrimaryAction", Get(props, "className"))
                    @@ "variant" :> "invisible"), rest),
            Node(Get(props, "children"))))

\* Rendering one component by name.
RenderComponent(comp, props, context) ==
    CASE comp = "BannerTitle" -> BannerTitle(props, context)
      [] comp = "BannerDescription" -> BannerDescription(props, context)
      [] comp = "BannerActions" -> BannerActions(props, context)
      [] comp = "BannerPrimaryAction" -> BannerPrimaryAction(props, context)
      [] comp = "BannerSecondaryAction" -> BannerSecondaryAction(props, context)

\* ------------------------------------------------------------- the root

\* The children of a Banner, rendered in order under its Provider.
RECURSIVE RenderChildren(_, _)
RenderChildren(children, context) ==
    IF children = << >> THEN << >>
    ELSE << RenderComponent(Head(children).comp, Head(children).props, context) >>
         \o RenderChildren(Tail(children), context)

RECURSIVE Elements(_)
Elements(outcomes) ==
    IF outcomes = << >> THEN << >>
    ELSE Head(outcomes).el \o Elements(Tail(outcomes))

FirstThrow(outcomes) ==
    IF \E i \in 1..Len(outcomes) : outcomes[i].threw # NoError
    THEN outcomes[CHOOSE i \in 1..Len(outcomes) :
                     /\ outcomes[i].threw # NoError
                     /\ \A j \in 1..(i - 1) : outcomes[j].threw = NoError].threw
    ELSE NoError

\* variant = 'info' in the parameter list: the default replaces undefined.
ResolveVariant(props) ==
    IF Get(props, "variant") = Undefined THEN "info" ELSE props["variant"]

\* icon ?? iconForVariant[variant]
\* The same with || for ??: a falsy icon gives way to the table too.
ResolveIconOr(icon, variant) == IF Truthy(icon) THEN icon ELSE iconForVariant[variant]

ResolveIcon(icon, variant) == Coalesce(icon, iconForVariant[variant])

\* dismissible = variant !== 'critical' && onDismiss
\* The same without the test of the variant.
DismissibleAnyVariant(variant, onDismiss) == Truthy(onDismiss)

Dismissible(variant, onDismiss) == variant # "critical" /\ Truthy(onDismiss)

\* hasActions = primaryAction || secondaryAction
HasActions(primaryAction, secondaryAction) ==
    Truthy(primaryAction) \/ Truthy(secondaryAction)

\* The container attributes: the spread of rest first, the fixed ones after.
\* The same with the spread of rest written last.
ContainerAttrsRestLast(rest, titleId, variant) ==
    Spread(("aria-labelledby" :> titleId @@ "data-variant" :> variant
            @@ "tabIndex" :> -1), rest)

ContainerAttrs(rest, titleId, variant) ==
    Spread(rest, ("aria-labelledby" :> titleId @@ "data-variant" :> variant
                  @@ "tabIndex" :> -1))

BannerOwnProps ==
    {"children", "description", "icon", "onDismiss", "primaryAction",
     "secondaryAction", "title", "variant"}

\* The return statement of Banner, under the Provider of value.
Banner(props, titleId, value) ==
    LET variant == ResolveVariant(props)
        rest == Rest(props, BannerOwnProps)
        title == Get(props, "title")
        description == Get(props, "description")
        onDismiss == Get(props, "onDismiss")
        primaryAction == Get(props, "primaryAction")
        secondaryAction == Get(props, "secondaryAction")
        context == Provided(value)
        titleOut == IF Truthy(title)
                    THEN << BannerTitle(("children" :> title), context) >>
                    ELSE << >>
        descriptionOut == IF Truthy(description)
                          THEN << BannerDescription(("children" :> description), context) >>
                          ELSE << >>
        childrenOut == RenderChildren(Get(props, "children"), context)
        actionsOut == IF HasActions(primaryAction, secondaryAction)
                      THEN << BannerActions(("primaryAction" :> primaryAction
                                             @@ "secondaryAction" :> secondaryAction),
                                            context) >>
                      ELSE << >>
        dismiss == IF Dismissible(variant, onDismiss)
                   THEN << Element("IconButton",
                              ("aria-label" :> "Dismiss banner" @@ "onClick" :> onDismiss
                               @@ "className" :> "BannerDismiss" @@ "icon" :> "XIcon"
                               @@ "variant" :> "invisible"), << >>) >>
                   ELSE << >>
        all == titleOut \o descriptionOut \o childrenOut \o actionsOut
    IN  IF FirstThrow(all) # NoError THEN Threw(FirstThrow(all))
        ELSE Returned(Element("section", ContainerAttrs(rest, titleId, variant),
                << Element("div", ("className" :> "BannerIcon"),
                       Node(ResolveIcon(Get(props, "icon"), variant))),
                   Element("div", ("className" :> "BannerContainer"),
                       << Element("div", ("className" :> "BannerContent"),
                              Elements(titleOut \o descriptionOut \o childrenOut)) >>
                       \o Elements(actionsOut)) >>
                \o dismiss))

\* ------------------------------------------------------------ document

\* The elements of a tree, in document order.
RECURSIVE Flatten(_)
Flatten(els) ==
    IF els = << >> THEN << >>
    ELSE << Head(els) >> \o Flatten(Head(els).children) \o Flatten(Tail(els))

HasId(el, id) == "id" \in DOMAIN el.attrs /\ el.attrs["id"] = id

\* document.getElementById(id): the first element with that id, or null.
getElementById(document, id) ==
    LET all == Flatten(document)
        hits == {i \in 1..Len(all) : HasId(all[i], id)}
    IN  IF hits = {} THEN << >>
        ELSE << all[CHOOSE i \in hits : \A j \in hits : i <= j] >>

\* --------------------------------------------------------------- styles

\* @media screen and (min-width: 544px)
Breakpoint == 544

\* The display declarations of StyledBanner that select the arrangement
\* containers, in source order. A selector is a class and an attribute
\* (either may be absent); its specificity is the number of its simple
\* selectors.
StyleRules ==
    << [minWidth |-> 0, class |-> "BannerActionsContainer", attr |-> "",
        specificity |-> 1, display |-> "flex"],
       [minWidth |-> 0, class |-> "BannerActions", attr |-> "data-hide-on-sm",
        specificity |-> 2, display |-> "none"],
       [minWidth |-> Breakpoint, class |-> "BannerActions", attr |-> "data-hide-on-sm",
        specificity |-> 2, display |-> "flex"],
       [minWidth |-> Breakpoint, class |-> "BannerActions", attr |-> "data-hide-on-md",
        specificity |-> 2, display |-> "none"] >>

\* Whether a rule selects element el, a child of the element parent, at a
\* viewport width.
Selects(rule, el, parent, viewport) ==
    /\ viewport >= rule.minWidth
    /\ IF rule.attr = ""
       THEN Get(el.attrs, "className") = rule.class
       ELSE /\ Get(parent.attrs, "className") = rule.class
            /\ rule.attr \in DOMAIN el.attrs

\* The cascade: of the rules that select the element, the most specific,
\* and of those the last in source order.
ComputedDisplay(el, parent, viewport) ==
    LET hits == {i \in 1..Len(StyleRules) : Selects(StyleRules[i], el, parent, viewport)}
        wins(i) == \A j \in hits :
                      \/ StyleRules[j].specificity < StyleRules[i].specificity
                      \/ /\ StyleRules[j].specificity = StyleRules[i].specificity
                         /\ j <= i
    IN  IF hits = {} THEN "block"
        ELSE StyleRules[CHOOSE i \in hits : wins(i)].display

\* ------------------------------------------------------------ the inputs

VariantInputs == BannerVariant \cup {Undefined}
TitleInputs == {Undefined, EmptyString, "Title"}
DescriptionInputs == {Undefined, "Description"}
IconInputs == {Undefined, Null, EmptyString, "CustomIcon"}
DismissInputs == {Undefined, "onDismiss"}
PrimaryInputs == {Undefined, EmptyString, "PrimaryButton"}
SecondaryInputs == {Undefined, EmptyString, "SecondaryButton"}

\* Pass-through attributes of the container a caller may add.
RestInputs ==
    { NoProps,
      ("aria-labelledby" :> "caller-label" @@ "data-variant" :> "caller-variant"
       @@ "tabIndex" :> 0 @@ "className" :> "caller-class") }

\* The Banner.Title elements a caller may nest.
ChildInputs ==
    { [comp |-> "BannerTitle", props |-> ("children" :> "Nested title")],
      [comp |-> "BannerTitle",
       props |-> ("children" :> "Nested title" @@ "as" :> "h3" @@ "id" :> "caller-id")] }

RECURSIVE SeqsUpTo(_, _)
SeqsUpTo(S, n) ==
    IF n = 0 THEN { << >> }
    ELSE LET shorter == SeqsUpTo(S, n - 1)
         IN  shorter \cup {Append(q, x) : q \in shorter, x \in S}

ChildrenInputs == SeqsUpTo(ChildInputs, MaxChildren)

\* A Banner with a title and nothing else: the props every family below
\* varies.
PlainProps ==
    [variant |-> Undefined, title |-> "Title", description |-> Undefined,
     icon |-> Undefined, onDismiss |-> Undefined, primaryAction |-> Undefined,
     secondaryAction |-> Undefined, children |-> << >>]

\* The props of a render, in four families: the variant, icon and dismiss
\* handler; the title, children and pass-through attributes; the two
\* actions; the description.
VariantFamily ==
    {[PlainProps EXCEPT !["variant"] = v, !["icon"] = i, !["onDismiss"] = d] :
        v \in VariantInputs, i \in IconInputs, d \in DismissInputs}

TitleFamily ==
    {Spread(r, [PlainProps EXCEPT !["title"] = t, !["children"] = c]) :
        t \in TitleInputs, c \in ChildrenInputs, r \in RestInputs}

ActionsFamily ==
    {[PlainProps EXCEPT !["primaryAction"] = a, !["secondaryAction"] = b,
                        !["onDismiss"] = d] :
        a \in PrimaryInputs, b \in SecondaryInputs, d \in DismissInputs}

DescriptionFamily ==
    {[PlainProps EXCEPT !["description"] = d] : d \in DescriptionInputs}

PropsInputs == VariantFamily \cup TitleFamily \cup ActionsFamily \cup DescriptionFamily

Widths == {Breakpoint - 1, Breakpoint, 1280}

\* The props a caller may give a sub-component rendered on its own.
PartInputs ==
    {<< "BannerTitle", Spread(a, Spread(i, ("children" :> "Title"))) >> :
        a \in {NoProps} \cup {("as" :> h) : h \in HeadingElement},
        i \in {NoProps, ("id" :> "caller-id")}}
    \cup
    {<< "BannerDescription", Spread(c, ("children" :> "Description")) >> :
        c \in {NoProps, ("className" :> "caller-class")}}
    \cup
    {<< "BannerActions", ("primaryAction" :> a @@ "secondaryAction" :> b) >> :
        a \in PrimaryInputs, b \in SecondaryInputs}
    \cup
    {<< k, Spread(v, Spread(c, ("children" :> "Label"))) >> :
        k \in {"BannerPrimaryAction", "BannerSecondaryAction"},
        v \in {NoProps} \cup {("variant" :> t) : t \in VariantType},
        c \in {NoProps, ("className" :> "caller-class")}}

\* ------------------------------------------------------------- the state

VARIABLES
    dev,        \* __DEV__: whether this is a development build
    phase,      \* "unmounted", "rendered", "committed", "idle" or "failed"
    props,      \* the props of the current render
    titleId,    \* the identifier useId returned for this mount
    value,      \* the memoized context value
    effectDeps, \* the dependencies of the effect when it last ran
    nextId,     \* the identifiers useId has handed out so far
    work,       \* the element tree a render returned, before its commit
    dom,        \* the committed document
    viewport,   \* the viewport width in px
    error,      \* the error thrown, if any
    part,       \* the last sub-component rendered on its own, and its outcome
    step        \* the operation that led to this state

vars == << dev, phase, props, titleId, value, effectDeps, nextId, work, dom,
           viewport, error, part, step >>

NoPart ==
    [comp |-> "none", props |-> NoProps, inside |-> FALSE, outcome |-> Threw(NoError)]

\* useId(): a fresh identifier on mount, the same one on every later render.
\* The same drawing an identifier on every render.
useIdPerRender(mounted, current, counter) ==
    ":r" \o ToString(counter) \o ":"

useId(mounted, current, counter) ==
    IF mounted THEN current ELSE ":r" \o ToString(counter) \o ":"

\* useMemo(() => ({titleId}), [titleId])
useMemo(mounted, current, oldId, newId) ==
    IF mounted /\ oldId = newId THEN current ELSE [titleId |-> newId]

Init ==
    /\ dev \in BOOLEAN
    /\ phase = "unmounted"
    /\ props = NoProps
    /\ titleId = ""
    /\ value = [titleId |-> ""]
    /\ effectDeps = << >>
    /\ nextId = 0
    /\ work = << >>
    /\ dom = << >>
    /\ viewport \in Widths
    /\ error = NoError
    /\ part = NoPart
    /\ step = "init"

\* The first render of a Banner: the hooks run and the tree is returned.
Mount(p) ==
    /\ phase = "unmounted"
    /\ nextId < MaxMounts
    /\ LET id == useId(FALSE, titleId, nextId)
           v == useMemo(FALSE, value, titleId, id)
           out == Banner(p, id, v)
       IN  /\ titleId' = id
           /\ value' = v
           /\ work' = out.el
           /\ error' = out.threw
           /\ phase' = IF out.threw = NoError THEN "rendered" ELSE "failed"
    /\ props' = p
    /\ nextId' = nextId + 1
    /\ step' = "mount"
    /\ UNCHANGED << dev, effectDeps, dom, viewport, part >>

\* Whether the effect of useEffect(..., [titleId]) is scheduled by a commit:
\* only a development build calls the hook, and it runs on mount and when
\* its dependency changed.
\* The same without the __DEV__ test.
EffectScheduledAnyBuild(isDev, deps, id) == deps # << id >>

EffectScheduled(isDev, deps, id) == isDev /\ deps # << id >>

\* The commit of the mounting render.
Commit ==
    /\ phase = "rendered"
    /\ dom' = work
    /\ work' = << >>
    /\ phase' = IF EffectScheduled(dev, effectDeps, titleId) THEN "committed" ELSE "idle"
    /\ step' = "commit"
    /\ UNCHANGED << dev, props, titleId, value, effectDeps, nextId, viewport,
                    error, part >>

\* The body of the effect: throws when no element has the titleId.
EffectThrows(document, id) == getElementById(document, id) = << >>

\* The effect runs after the commit. An error thrown there is uncaught, and
\* the host unmounts the tree.
RunEffect ==
    /\ phase = "committed"
    /\ effectDeps' = << titleId >>
    /\ IF EffectThrows(dom, titleId)
       THEN /\ error' = MissingAccessibleTitle
            /\ phase' = "failed"
            /\ dom' = << >>
       ELSE /\ phase' = "idle"
            /\ UNCHANGED << error, dom >>
    /\ step' = "effect"
    /\ UNCHANGED << dev, props, titleId, value, nextId, work, viewport, part >>

\* A later render with changed props, and its commit.
Rerender(p) ==
    /\ phase = "idle"
    /\ LET id == useId(TRUE, titleId, nextId)
           v == useMemo(TRUE, value, titleId, id)
           out == Banner(p, id, v)
       IN  /\ titleId' = id
           /\ value' = v
           /\ error' = out.threw
           /\ dom' = IF out.threw = NoError THEN out.el ELSE << >>
           /\ phase' = IF out.threw # NoError THEN "failed"
                       ELSE IF EffectScheduled(dev, effectDeps, id) THEN "committed"
                       ELSE "idle"
    /\ props' = p
    /\ step' = "rerender"
    /\ UNCHANGED << dev, effectDeps, nextId, work, viewport, part >>

\* The viewport is resized: no component listens, layout alone changes.
Resize(w) ==
    /\ phase \in {"committed", "idle"}
    /\ w # viewport
    /\ viewport' = w
    /\ step' = "resize"
    /\ UNCHANGED << dev, phase, props, titleId, value, effectDeps, nextId, work,
                    dom, error, part >>

\* The Banner is unmounted: its hook state and its context value go.
Unmount ==
    /\ phase = "idle"
    /\ phase' = "unmounted"
    /\ props' = NoProps
    /\ titleId' = ""
    /\ value' = [titleId |-> ""]
    /\ effectDeps' = << >>
    /\ dom' = << >>
    /\ step' = "unmount"
    /\ UNCHANGED << dev, nextId, work, viewport, error, part >>

Next ==
    \/ \E p \in PropsInputs : Mount(p)
    \/ Commit
    \/ RunEffect
    \/ \E p \in PropsInputs \ {props} : Rerender(p)
    \/ \E w \in Widths : Resize(w)
    \/ Unmount

Spec == Init /\ [][Next]_vars

\* ---------------------------------------- sub-components on their own

\* A sub-component is rendered on its own: below the Provider of the mounted
\* Banner (inside), or in a tree with no Banner above it.
RenderPart(comp, p, inside) ==
    /\ inside => phase \in {"committed", "idle"}
    /\ part' = [comp |-> comp, props |-> p, inside |-> inside,
                outcome |-> RenderComponent(comp, p,
                               IF inside THEN Provided(value) ELSE NullContext)]
    /\ step' = "part"
    /\ UNCHANGED << dev, phase, props, titleId, value, effectDeps, nextId, work,
                    dom, viewport, error >>

NextParts ==
    \/ Mount(PlainProps)
    \/ Commit
    \/ RunEffect
    \/ Unmount
    \/ \E i \in PartInputs, inside \in BOOLEAN : RenderPart(i[1], i[2], inside)

SpecParts == Init /\ [][NextParts]_vars

\* ------------------------------------------------- reading a rendering

\* A render of the Banner has returned: its tree is the one being committed
\* or the committed one.
Rendered == phase \in {"rendered", "committed", "idle"}

Output == IF phase = "rendered" THEN work ELSE dom

Container == Output[1]

\* The elements of the rendering that satisfy a test.
Matching(Test(_)) == SelectSeq(Flatten(Output), Test)

IsTitleElement(el) == HasId(el, titleId)
IsHeading(el) == el.tag \in HeadingElement
IsDismissControl(el) ==
    el.tag = "IconButton" /\ Get(el.attrs, "aria-label") = "Dismiss banner"
IsActionsRegion(el) == Get(el.attrs, "className") = "BannerActions"
IsArrangement(el) == Get(el.attrs, "className") = "BannerActionsContainer"
IsIconSlot(el) == Get(el.attrs, "className") = "BannerIcon"
HidesOnSm(el) == "data-hide-on-sm" \in DOMAIN el.attrs
HidesOnMd(el) == "data-hide-on-md" \in DOMAIN el.attrs

\* The variant a render uses: the one passed, info when none was.
VariantOf(p) == IF p.variant = Undefined THEN "info" ELSE p.variant

\* A nested Banner.Title is among the children.
HasNestedTitle(p) ==
    \E i \in 1..Len(p.children) : p.children[i].comp = "BannerTitle"

\* A title is supplied: a title prop that renders, or a nested Banner.Title.
TitleSupplied(p) == Truthy(p.title) \/ HasNestedTitle(p)

\* An action is present: the prop holds something to render.
ActionsPresent(p) == Truthy(p.primaryAction) \/ Truthy(p.secondaryAction)

\* The arrangements of the actions region that layout shows at a width.
VisibleArrangements(w) ==
    LET regions == Matching(IsActionsRegion)
    IN  IF regions = << >> THEN << >>
        ELSE LET Shown(el) == ComputedDisplay(el, regions[1], w) # "none"
             IN  SelectSeq(regions[1].children, Shown)

\* ------------------------------------------------------------ the claims

\* C1: in every render where a title is supplied by the title prop or by a
\* nested Banner.Title (or by both), exactly one element has the titleId as
\* its id and the container is labelled by that titleId.
C1_ExactlyOneTitleElement ==
    (Rendered /\ TitleSupplied(props)) =>
        /\ Len(Matching(IsTitleElement)) = 1
        /\ Container.attrs["aria-labelledby"] = titleId

\* C2: the dismiss control is rendered exactly when the variant is not
\* critical and onDismiss is present.
C2_DismissGate ==
    Rendered =>
        /\ Len(Matching(IsDismissControl)) <= 1
        /\ Len(Matching(IsDismissControl)) = 1
             <=> (VariantOf(props) # "critical" /\ props.onDismiss # Undefined)

C2_Witness ==
    /\ Rendered
    /\ props.variant = "critical"
    /\ props.onDismiss # Undefined
    /\ Matching(IsDismissControl) = << >>

\* C3: a development build that mounts a Banner without a title raises
\* MissingAccessibleTitle, and raises it in the effect after the commit,
\* never in the render or the commit; a production build raises nothing.
C3_MissingTitleRaisedAfterCommit ==
    /\ [](error # NoError => dev /\ error = MissingAccessibleTitle)
    /\ [][error' # error => phase = "committed" /\ phase' = "failed"]_vars
    /\ [][(phase = "rendered" /\ dev) =>
             (phase' = "committed" /\ error' = NoError)]_vars
    /\ [][(phase = "committed" /\ phase' # "committed") =>
             (error' = MissingAccessibleTitle <=> ~TitleSupplied(props))]_vars
    /\ []((~dev /\ phase = "idle" /\ step = "commit") => error = NoError)

C3_Witness ==
    /\ dev
    /\ step = "effect"
    /\ ~TitleSupplied(props)
    /\ props.title = Undefined
    /\ error = MissingAccessibleTitle

\* C6 as stated: exactly one arrangement is visible at every width, the one
\* ordered (secondary, primary) below the breakpoint and the one ordered
\* (primary, secondary) at or above it.
C6_SecondaryFirstBelowBreakpoint ==
    (phase \in {"committed", "idle"} /\ ActionsPresent(props)) =>
        /\ Len(VisibleArrangements(viewport)) = 1
        /\ VisibleArrangements(viewport)[1].children =
             IF viewport < Breakpoint
             THEN Node(props.secondaryAction) \o Node(props.primaryAction)
             ELSE Node(props.primaryAction) \o Node(props.secondaryAction)

\* C6 as amended: exactly one arrangement is visible at every width, the one
\* ordered (primary, secondary) below the breakpoint and the one ordered
\* (secondary, primary) at or above it.
C6_PrimaryFirstBelowBreakpoint ==
    (phase \in {"committed", "idle"} /\ ActionsPresent(props)) =>
        /\ Len(VisibleArrangements(viewport)) = 1
        /\ VisibleArrangements(viewport)[1].children =
             IF viewport < Breakpoint
             THEN Node(props.primaryAction) \o Node(props.secondaryAction)
             ELSE Node(props.secondaryAction) \o Node(props.primaryAction)

C6_Witness ==
    /\ phase = "idle"
    /\ step = "resize"
    /\ viewport < Breakpoint
    /\ Truthy(props.primaryAction) /\ Truthy(props.secondaryAction)
    /\ Len(VisibleArrangements(viewport)) = 1
    /\ VisibleArrangements(viewport)[1].children[1].attrs["data"] = props.primaryAction

\* C7: without actions no actions region is rendered; with an action
\* present exactly one region holds exactly two arrangements, one marked
\* data-hide-on-sm and one data-hide-on-md; a resize changes nothing but the
\* viewport, so both stay mounted.
C7_TwoArrangementsAlwaysMounted ==
    /\ [](Rendered =>
            IF ActionsPresent(props)
            THEN /\ Len(Matching(IsActionsRegion)) = 1
                 /\ Len(Matching(IsArrangement)) = 2
                 /\ Len(Matching(IsActionsRegion)[1].children) = 2
                 /\ Len(SelectSeq(Matching(IsActionsRegion)[1].children, HidesOnSm)) = 1
                 /\ Len(SelectSeq(Matching(IsActionsRegion)[1].children, HidesOnMd)) = 1
            ELSE /\ Matching(IsActionsRegion) = << >>
                 /\ Matching(IsArrangement) = << >>)
    /\ [][viewport' # viewport =>
            UNCHANGED << dom, work, phase, props, titleId, value, effectDeps,
                         nextId, error >>]_vars

C7_Witness ==
    /\ step = "resize"
    /\ phase = "idle"
    /\ Truthy(props.secondaryAction)
    /\ ~Truthy(props.primaryAction)
    /\ Len(Matching(IsArrangement)) = 2

\* C8: without an explicit icon the icon slot shows the icon of the variant
\* (critical Stop, info Info, success CheckCircle, upsell Info, warning
\* Alert; info when no variant is passed); an explicit icon is shown
\* whatever the variant.
C8_IconForVariant ==
    Rendered =>
        /\ Len(Matching(IsIconSlot)) = 1
        /\ Matching(IsIconSlot)[1].children =
             IF props.icon \in {Undefined, Null}
             THEN Node(CASE VariantOf(props) = "critical" -> "StopIcon"
                         [] VariantOf(props) = "info" -> "InfoIcon"
                         [] VariantOf(props) = "success" -> "CheckCircleIcon"
                         [] VariantOf(props) = "upsell" -> "InfoIcon"
                         [] VariantOf(props) = "warning" -> "AlertIcon")
             ELSE Node(props.icon)

C8_Witness ==
    /\ Rendered
    /\ props.variant = "warning"
    /\ props.icon = "CustomIcon"
    /\ Matching(IsIconSlot)[1].children = Node("CustomIcon")

\* C9: from mount to unmount the titleId and the context value never change
\* across re-renders, the context value holds titleId alone, and each
\* rendering is the function of the props of that render.
C9_StableIdentifierPureOutput ==
    /\ [][(phase # "unmounted" /\ phase' # "unmounted") =>
             (titleId' = titleId /\ value' = value)]_vars
    /\ [](phase # "unmounted" =>
             (DOMAIN value = {"titleId"} /\ value.titleId = titleId))
    /\ [](Rendered => Output = Banner(props, titleId, [titleId |-> titleId]).el)

C9_Witness ==
    /\ step = "rerender"
    /\ phase = "idle"
    /\ nextId = MaxMounts
    /\ titleId = ":r" \o ToString(MaxMounts - 1) \o ":"
    /\ value = [titleId |-> titleId]

\* C10: whatever aria-labelledby, data-variant or tabIndex the caller passes,
\* the container renders aria-labelledby = titleId, data-variant = the
\* variant and tabIndex = -1; whatever id the caller passes to Banner.Title,
\* the heading renders id = titleId.
C10_PassThroughCannotBreakBinding ==
    Rendered =>
        /\ Container.attrs["aria-labelledby"] = titleId
        /\ Container.attrs["data-variant"] = VariantOf(props)
        /\ Container.attrs["tabIndex"] = -1
        /\ \A i \in 1..Len(Matching(IsHeading)) :
              Matching(IsHeading)[i].attrs["id"] = titleId

C10_Witness ==
    /\ Rendered
    /\ "aria-labelledby" \in DOMAIN props
    /\ props["aria-labelledby"] # titleId
    /\ \E i \in 1..Len(props.children) : Get(props.children[i].props, "id") = "caller-id"
    /\ Len(Matching(IsHeading)) >= 1

\* C4 as stated: Title, Description and Actions each throw ContextMisuse
\* when rendered outside a Banner, and do not when rendered inside one.
C4_AllThreeThrowOutside ==
    part.comp \in {"BannerTitle", "BannerDescription", "BannerActions"} =>
        (part.outcome.threw = ContextMisuse <=> ~part.inside)

\* C4 as amended: Title throws ContextMisuse when rendered outside a Banner,
\* in every build; Description and Actions read no context and render
\* without error there; inside a Banner none of the three throws.
C4_OnlyTitleThrowsOutside ==
    part.comp \in {"BannerTitle", "BannerDescription", "BannerActions"} =>
        /\ part.outcome.threw \in {NoError, ContextMisuse}
        /\ part.outcome.threw = ContextMisuse
             <=> (part.comp = "BannerTitle" /\ ~part.inside)
        /\ part.outcome.threw = NoError => Len(part.outcome.el) = 1

C4_Witness ==
    /\ part.comp = "BannerTitle"
    /\ ~part.inside
    /\ ~dev
    /\ part.outcome.threw = ContextMisuse

\* C5: whatever props the caller passes, a variant among them included, the
\* Button of the primary action has variant default and the Button of the
\* secondary action has variant invisible.
C5_FixedButtonVariants ==
    /\ part.comp = "BannerPrimaryAction" =>
          part.outcome.el[1].attrs["variant"] = "default"
    /\ part.comp = "BannerSecondaryAction" =>
          part.outcome.el[1].attrs["variant"] = "invisible"

====
